---- MODULE Spec2Model ----
(***************************************************************************)
(* Labor force dashboard (Region de Los Rios): the data provider, the      *)
(* DataEntity validator, the trace/layout builders, the ChartRenderer and  *)
(* the Dashboard bootstrap, as a state machine.                            *)
(*                                                                         *)
(* Numbers with one decimal (the workforce series, in thousands of         *)
(* persons) are kept as integers in tenths: 155.0 is 1550.  Other decimal  *)
(* literals of the layout are kept as Dec(mantissa, decimals).  Display     *)
(* texts are written without their accents and tildes.                     *)
(***************************************************************************)
EXTENDS Integers, Sequences, FiniteSets, TLC

VARIABLES
    chartConfig,  \* the module-level ChartConfig object (not frozen)
    provider,     \* what DataService.getLosRiosData does when called
    variant,      \* which bootstrap is loaded: "main" (main.js) or "debug"
    pc,           \* position of the bootstrap / Dashboard.init
    dashboard,    \* the Dashboard instance (its chartRenderer), or NoDashboard
    data,         \* init's local `data`
    validated,    \* outcome of data.validate() in this run
    traces,       \* render's local `traces`
    layout,       \* render's local `layout`
    plotCalls,    \* the calls made to Plotly.newPlot, in order
    plotPromise,  \* the promise Plotly.newPlot returned
    error,        \* the exception in flight / caught
    initPromise,  \* the promise returned by Dashboard.init
    console,      \* console output, in order
    calls         \* history of the operations invoked, in order

vars == <<chartConfig, provider, variant, pc, dashboard, data, validated, traces, layout,
          plotCalls, plotPromise, error, initPromise, console, calls>>

----------------------------------------------------------------------------
(* Bounds of the explored inputs *)

MaxLen == 2

Values == {0, 1}

----------------------------------------------------------------------------
(* JavaScript values *)

Undefined == [type |-> "undefined"]

Arr(s) == [type |-> "array", elems |-> s]

IsArray(v) == v.type = "array"

Length(v) == Len(v.elems)

Dec(m, d) == [mant |-> m, decimals |-> d]

SeqsUpTo(S, n) == UNION {[1..k -> S] : k \in 0..n}

----------------------------------------------------------------------------
(* core/entities.js *)

DataEntity(years, total, male, female) ==
    [years |-> years, total |-> total, male |-> male, female |-> female]

Return(v) == [threw |-> FALSE, value |-> v]

Throw(e) == [threw |-> TRUE, error |-> e]

validateNoFemale(d) ==
    IF ~IsArray(d.years) \/ ~IsArray(d.total) THEN Throw("TypeError")
    ELSE IF Length(d.years) # Length(d.total) THEN Return(FALSE)
    ELSE IF ~IsArray(d.male) THEN Throw("TypeError")
    ELSE Return(Length(d.years) = Length(d.male))

validateNonEmpty(d) ==
    IF ~IsArray(d.years) THEN Throw("TypeError")
    ELSE IF Length(d.years) = 0 THEN Return(FALSE)
    ELSE IF ~IsArray(d.total) THEN Throw("TypeError")
    ELSE IF Length(d.years) # Length(d.total) THEN Return(FALSE)
    ELSE IF ~IsArray(d.male) THEN Throw("TypeError")
    ELSE IF Length(d.years) # Length(d.male) THEN Return(FALSE)
    ELSE IF ~IsArray(d.female) THEN Throw("TypeError")
    ELSE Return(Length(d.years) = Length(d.female))

\* a && b && c, left to right with short circuit; reading .length of
\* undefined throws a TypeError
validate(d) ==
    IF ~IsArray(d.years) THEN Throw("TypeError")
    ELSE IF ~IsArray(d.total) THEN Throw("TypeError")
    ELSE IF Length(d.years) # Length(d.total) THEN Return(FALSE)
    ELSE IF ~IsArray(d.male) THEN Throw("TypeError")
    ELSE IF Length(d.years) # Length(d.male) THEN Return(FALSE)
    ELSE IF ~IsArray(d.female) THEN Throw("TypeError")
    ELSE Return(Length(d.years) = Length(d.female))

----------------------------------------------------------------------------
(* services/dataService.js *)

LosRiosYears ==
    <<2010, 2011, 2012, 2013, 2014, 2015, 2016, 2017, 2018, 2019, 2020, 2021,
      2022, 2023, 2024>>

LosRiosTotal ==
    <<1550, 1583, 1617, 1643, 1652, 1679, 1707, 1740, 1765, 1794, 1655, 1709,
      1801, 1756, 1833>>

LosRiosMaleTypo ==
    <<892, 911, 928, 942, 937, 951, 965, 981, 994, 1008, 924, 968, 1012, 982,
      1048>>

LosRiosMale ==
    <<892, 911, 928, 942, 937, 951, 965, 981, 994, 1008, 942, 968, 1012, 982,
      1048>>

LosRiosFemale ==
    <<658, 672, 689, 701, 715, 728, 742, 759, 771, 786, 713, 741, 789, 774,
      785>>

getLosRiosDataShortFemale ==
    DataEntity(Arr(LosRiosYears), Arr(LosRiosTotal), Arr(LosRiosMale),
               Arr(SubSeq(LosRiosFemale, 1, 14)))

getLosRiosData ==
    DataEntity(Arr(LosRiosYears), Arr(LosRiosTotal), Arr(LosRiosMale),
               Arr(LosRiosFemale))

----------------------------------------------------------------------------
(* config/chartConfig.js and core/interfaces.js *)

ChartConfig ==
    [colors |-> [total |-> "#1f77b4", male |-> "#d62728", female |-> "#ff7f0e",
                 covid |-> "#8b5a3c"],
     dimensions |-> [width |-> 1100, height |-> 650],
     fonts |-> [family |-> "Georgia, serif",
                sizes |-> [title |-> 22, axis |-> 14, tick |-> 12,
                           legend |-> 14, annotation |-> 10]],
     theme |-> [background |-> "white", textColor |-> "#1e293b",
                gridColor |-> "#e5e7eb"]]

DataSeries == [TOTAL |-> "total", MALE |-> "male", FEMALE |-> "female"]

COVID_YEAR == 2020

Events == [COVID_YEAR |-> COVID_YEAR]

----------------------------------------------------------------------------
(* components/chartBuilder.js *)

createTraceSwapped(d, seriesKey, name, color) ==
    [x |-> d[seriesKey],
     y |-> d.years,
     mode |-> "lines+markers",
     name |-> name,
     line |-> [color |-> color, width |-> 3],
     marker |-> [size |-> 8, color |-> chartConfig.colors.total],
     hovertemplate |-> "<b>" \o name \o "</b><br>Ano: " \o
         "%{x}<br>Fuerza de Trabajo: %{y:.1f} miles<extra></extra>"]

\* TraceBuilder.createTrace: x and y are the entity's own arrays
createTrace(d, seriesKey, name, color) ==
    [x |-> d.years,
     y |-> d[seriesKey],
     mode |-> "lines+markers",
     name |-> name,
     line |-> [color |-> color, width |-> 3],
     marker |-> [size |-> 8, color |-> color],
     hovertemplate |-> "<b>" \o name \o "</b><br>Ano: " \o
         "%{x}<br>Fuerza de Trabajo: %{y:.1f} miles<extra></extra>"]

AxisFont(size) ==
    [family |-> chartConfig.fonts.family,
     color |-> chartConfig.theme.textColor,
     size |-> size]

createXAxis ==
    [title |-> "Ano",
     titlefont |-> AxisFont(chartConfig.fonts.sizes.axis),
     tickfont |-> AxisFont(chartConfig.fonts.sizes.tick),
     showgrid |-> FALSE,
     showline |-> TRUE,
     linecolor |-> chartConfig.theme.textColor,
     linewidth |-> 2,
     tick0 |-> 2010,
     dtick |-> 2]

createYAxis ==
    [title |-> "Fuerza de Trabajo (miles de personas)",
     titlefont |-> AxisFont(chartConfig.fonts.sizes.axis),
     tickfont |-> AxisFont(chartConfig.fonts.sizes.tick),
     showgrid |-> TRUE,
     gridcolor |-> chartConfig.theme.gridColor,
     gridwidth |-> 1,
     showline |-> TRUE,
     linecolor |-> chartConfig.theme.textColor,
     linewidth |-> 2]

createLegend ==
    [orientation |-> "h",
     yanchor |-> "top",
     y |-> Dec(105, 2),
     xanchor |-> "right",
     x |-> Dec(98, 2),
     bgcolor |-> "rgba(255,255,255,0.85)",
     bordercolor |-> "rgba(0,0,0,0)",
     borderwidth |-> 0,
     font |-> AxisFont(chartConfig.fonts.sizes.legend)]

createShapesAtTick0 ==
    <<[type |-> "line",
       x0 |-> createXAxis.tick0,
       x1 |-> createXAxis.tick0,
       y0 |-> 0,
       y1 |-> 1,
       yref |-> "paper",
       line |-> [color |-> chartConfig.colors.covid, width |-> Dec(15, 1),
                 dash |-> "dot"],
       opacity |-> Dec(7, 1)]>>

createShapes ==
    <<[type |-> "line",
       x0 |-> Events.COVID_YEAR,
       x1 |-> Events.COVID_YEAR,
       y0 |-> 0,
       y1 |-> 1,
       yref |-> "paper",
       line |-> [color |-> chartConfig.colors.covid, width |-> Dec(15, 1),
                 dash |-> "dot"],
       opacity |-> Dec(7, 1)]>>

createAnnotations ==
    <<[x |-> Events.COVID_YEAR,
       y |-> 180,
       text |-> "COVID-19",
       showarrow |-> FALSE,
       font |-> [family |-> chartConfig.fonts.family,
                 size |-> chartConfig.fonts.sizes.annotation,
                 color |-> chartConfig.colors.covid],
       bgcolor |-> "rgba(255,255,255,0.8)",
       bordercolor |-> "rgba(0,0,0,0)",
       xanchor |-> "center"]>>

\* LayoutBuilder.create
LayoutBuilderCreate ==
    [title |-> [text |-> "Evolucion de la Fuerza de Trabajo - Region de Los Rios (2010-2024)",
                x |-> Dec(2, 2),
                font |-> [size |-> chartConfig.fonts.sizes.title,
                          family |-> chartConfig.fonts.family,
                          color |-> chartConfig.theme.textColor],
                xanchor |-> "left"],
     xaxis |-> createXAxis,
     yaxis |-> createYAxis,
     hovermode |-> "x unified",
     width |-> chartConfig.dimensions.width,
     height |-> chartConfig.dimensions.height,
     showlegend |-> TRUE,
     legend |-> createLegend,
     plot_bgcolor |-> chartConfig.theme.background,
     paper_bgcolor |-> chartConfig.theme.background,
     font |-> [family |-> chartConfig.fonts.family,
               color |-> chartConfig.theme.textColor],
     shapes |-> createShapes,
     annotations |-> createAnnotations]

----------------------------------------------------------------------------
(* components/chartRenderer.js *)

ChartRendererFixedSize(containerId) ==
    [containerId |-> "chart",
     config |-> [responsive |-> FALSE,
                 displayModeBar |-> TRUE,
                 displaylogo |-> FALSE,
                 modeBarButtonsToRemove |-> <<"pan2d", "lasso2d">>]]

ChartRenderer(containerId) ==
    [containerId |-> containerId,
     config |-> [responsive |-> TRUE,
                 displayModeBar |-> TRUE,
                 displaylogo |-> FALSE,
                 modeBarButtonsToRemove |-> <<"pan2d", "lasso2d", "select2d">>]]

buildTracesMaleFirst(d) ==
    <<createTrace(d, "male", "Hombres", chartConfig.colors.male),
      createTrace(d, "total", "Ambos sexos", chartConfig.colors.total),
      createTrace(d, "female", "Mujeres", chartConfig.colors.female)>>

\* ChartRenderer._buildTraces
buildTraces(d) ==
    <<createTrace(d, "total", "Ambos sexos", chartConfig.colors.total),
      createTrace(d, "male", "Hombres", chartConfig.colors.male),
      createTrace(d, "female", "Mujeres", chartConfig.colors.female)>>

----------------------------------------------------------------------------
(* The inputs: the shipped DataService, or a provider put in its place     *)
(* that returns some other entity or throws                                *)

YearsUpTo(n) == [i \in 1..n |-> 2009 + i]

YearInputs == {Arr(YearsUpTo(n)) : n \in 0..MaxLen} \cup {Undefined}

SeriesInputs == {Arr(s) : s \in SeqsUpTo(Values, MaxLen)} \cup {Undefined}

MismatchScenario ==
    DataEntity(Arr(LosRiosYears), Arr(LosRiosTotal),
               Arr(SubSeq(LosRiosMale, 1, 14)), Arr(LosRiosFemale))

Entities ==
    {DataEntity(y, t, m, f) :
        y \in YearInputs, t \in SeriesInputs, m \in SeriesInputs,
        f \in SeriesInputs}
    \cup {MismatchScenario}

EmptyEntity == DataEntity(Arr(<<>>), Arr(<<>>), Arr(<<>>), Arr(<<>>))

Providers ==
    {[kind |-> "shipped", throws |-> FALSE, entity |-> EmptyEntity]}
    \cup {[kind |-> "replaced", throws |-> TRUE, entity |-> EmptyEntity]}
    \cup {[kind |-> "replaced", throws |-> FALSE, entity |-> e] : e \in Entities}

\* DataService.getLosRiosData() as seen by the caller
CallProvider(p) ==
    IF p.throws THEN Throw("ProviderError")
    ELSE IF p.kind = "shipped" THEN Return(getLosRiosData)
    ELSE Return(p.entity)

----------------------------------------------------------------------------
(* State *)

NoDashboard == [chartRenderer |-> [containerId |-> "", config |-> [none |-> TRUE]]]

NoLayout == [none |-> TRUE]

NoData == [none |-> TRUE]

Entry(level, msg, args) == [level |-> level, msg |-> msg, args |-> args]

\* console.log calls exist only in the debug bootstrap
Log(out, msgs) ==
    IF variant = "debug" THEN out \o [i \in 1..Len(msgs) |-> Entry("log", msgs[i], <<>>)]
    ELSE out

Init ==
    /\ chartConfig = ChartConfig
    /\ provider \in Providers
    /\ variant \in {"main", "debug"}
    /\ pc = "loading"
    /\ dashboard = NoDashboard
    /\ data = NoData
    /\ validated = "none"
    /\ traces = <<>>
    /\ layout = NoLayout
    /\ plotCalls = <<>>
    /\ plotPromise = "none"
    /\ error = ""
    /\ initPromise = "none"
    /\ console = Log(<<>>, <<"Cargando dashboard...", "DataService cargado",
                             "ChartRenderer cargado">>)
    /\ calls = <<>>

----------------------------------------------------------------------------
(* main.js: the bootstrap and Dashboard.init *)

\* the DOMContentLoaded listener: new Dashboard(), then dashboard.init();
\* the browser dispatches the event once per document
DOMContentLoaded ==
    /\ pc = "loading"
    /\ dashboard' = [chartRenderer |-> ChartRenderer("chart-container")]
    /\ initPromise' = "pending"
    /\ console' = Log(console, <<"DOM cargado, inicializando dashboard",
                                 "Dashboard constructor",
                                 "Iniciando dashboard...">>)
    /\ calls' = Append(calls, "init")
    /\ pc' = "getData"
    /\ UNCHANGED <<chartConfig, provider, variant, data, validated, traces, layout,
                   plotCalls, plotPromise, error>>

InitGetDataSkipValidate ==
    /\ pc = "getData"
    /\ calls' = Append(calls, "getLosRiosData")
    /\ LET r == CallProvider(provider) IN
         IF r.threw
         THEN /\ error' = r.error
              /\ pc' = "catch"
              /\ UNCHANGED <<data, console>>
         ELSE /\ data' = r.value
              /\ console' = Log(console, <<"Datos obtenidos:">>)
              /\ pc' = "buildTraces"
              /\ UNCHANGED error
    /\ UNCHANGED <<chartConfig, provider, variant, dashboard, validated, traces, layout,
                   plotCalls, plotPromise, initPromise>>

InitGetDataOutsideTry ==
    /\ pc = "getData"
    /\ calls' = Append(calls, "getLosRiosData")
    /\ LET r == CallProvider(provider) IN
         IF r.threw
         THEN /\ error' = r.error
              /\ initPromise' = "rejected"
              /\ pc' = "failed"
              /\ UNCHANGED <<data, console>>
         ELSE /\ data' = r.value
              /\ console' = Log(console, <<"Datos obtenidos:">>)
              /\ pc' = "validate"
              /\ UNCHANGED <<error, initPromise>>
    /\ UNCHANGED <<chartConfig, provider, variant, dashboard, validated,
                   traces, layout, plotCalls, plotPromise>>

\* const data = DataService.getLosRiosData();
InitGetData ==
    /\ pc = "getData"
    /\ calls' = Append(calls, "getLosRiosData")
    /\ LET r == CallProvider(provider) IN
         IF r.threw
         THEN /\ error' = r.error
              /\ pc' = "catch"
              /\ UNCHANGED <<data, console>>
         ELSE /\ data' = r.value
              /\ console' = Log(console, <<"Datos obtenidos:">>)
              /\ pc' = "validate"
              /\ UNCHANGED error
    /\ UNCHANGED <<chartConfig, provider, variant, dashboard, validated, traces, layout,
                   plotCalls, plotPromise, initPromise>>

InitValidateIgnored ==
    /\ pc = "validate"
    /\ calls' = Append(calls, "validate")
    /\ LET r == validate(data) IN
         IF r.threw
         THEN /\ validated' = "threw"
              /\ error' = r.error
              /\ pc' = "catch"
              /\ UNCHANGED console
         ELSE /\ validated' = IF r.value THEN "true" ELSE "false"
              /\ console' = Log(console, <<"Datos validados correctamente">>)
              /\ pc' = "buildTraces"
              /\ UNCHANGED error
    /\ UNCHANGED <<chartConfig, provider, variant, dashboard, data, traces, layout,
                   plotCalls, plotPromise, initPromise>>

\* if (!data.validate()) throw new Error('Invalid data structure');
InitValidate ==
    /\ pc = "validate"
    /\ calls' = Append(calls, "validate")
    /\ LET r == validate(data) IN
         IF r.threw
         THEN /\ validated' = "threw"
              /\ error' = r.error
              /\ pc' = "catch"
              /\ UNCHANGED console
         ELSE IF ~r.value
         THEN /\ validated' = "false"
              /\ error' = "Invalid data structure"
              /\ pc' = "catch"
              /\ UNCHANGED console
         ELSE /\ validated' = "true"
              /\ console' = Log(console, <<"Datos validados correctamente">>)
              /\ pc' = "buildTraces"
              /\ UNCHANGED error
    /\ UNCHANGED <<chartConfig, provider, variant, dashboard, data, traces, layout,
                   plotCalls, plotPromise, initPromise>>

RenderBuildTracesGuarded ==
    /\ pc = "buildTraces"
    /\ IF validate(data) = Return(TRUE)
       THEN /\ calls' = Append(calls, "_buildTraces")
            /\ traces' = buildTraces(data)
            /\ pc' = "layout"
            /\ UNCHANGED error
       ELSE /\ error' = "Invalid data structure"
            /\ pc' = "catch"
            /\ UNCHANGED <<calls, traces>>
    /\ UNCHANGED <<chartConfig, provider, variant, dashboard, data, validated,
                   layout, plotCalls, plotPromise, initPromise, console>>

\* render: const traces = this._buildTraces(data);
RenderBuildTraces ==
    /\ pc = "buildTraces"
    /\ calls' = Append(calls, "_buildTraces")
    /\ traces' = buildTraces(data)
    /\ pc' = "layout"
    /\ UNCHANGED <<chartConfig, provider, variant, dashboard, data, validated, layout,
                   plotCalls, plotPromise, error, initPromise, console>>

RenderLayoutResizing ==
    /\ pc = "layout"
    /\ calls' = Append(calls, "LayoutBuilder.create")
    /\ chartConfig' = [chartConfig EXCEPT !.dimensions.width = 800]
    /\ layout' = LayoutBuilderCreate
    /\ pc' = "newPlot"
    /\ UNCHANGED <<provider, variant, dashboard, data, validated, traces,
                   plotCalls, plotPromise, error, initPromise, console>>

\* render: const layout = LayoutBuilder.create();
RenderLayout ==
    /\ pc = "layout"
    /\ calls' = Append(calls, "LayoutBuilder.create")
    /\ layout' = LayoutBuilderCreate
    /\ pc' = "newPlot"
    /\ UNCHANGED <<chartConfig, provider, variant, dashboard, data, validated, traces,
                   plotCalls, plotPromise, error, initPromise, console>>

\* render: return Plotly.newPlot(this.containerId, traces, layout, this.config);
\* the library throws, or returns a promise that init awaits
RenderNewPlot ==
    /\ pc = "newPlot"
    /\ calls' = Append(calls, "Plotly.newPlot")
    /\ plotCalls' = Append(plotCalls,
                           [containerId |-> dashboard.chartRenderer.containerId,
                            traces |-> traces,
                            layout |-> layout,
                            config |-> dashboard.chartRenderer.config])
    /\ \/ /\ error' = "RenderError"
          /\ pc' = "catch"
          /\ UNCHANGED plotPromise
       \/ /\ plotPromise' = "pending"
          /\ pc' = "await"
          /\ UNCHANGED error
    /\ UNCHANGED <<chartConfig, provider, variant, dashboard, data, validated, traces,
                   layout, initPromise, console>>

\* the awaited promise fulfils: init resumes after the await and returns
PlotlyFulfil ==
    /\ pc = "await"
    /\ plotPromise = "pending"
    /\ plotPromise' = "fulfilled"
    /\ console' = Log(console, <<"Grafico renderizado">>)
    /\ initPromise' = "fulfilled"
    /\ pc' = "rendered"
    /\ UNCHANGED <<chartConfig, provider, variant, dashboard, data, validated, traces,
                   layout, plotCalls, error, calls>>

PlotlyRejectUnhandled ==
    /\ pc = "await"
    /\ plotPromise = "pending"
    /\ plotPromise' = "rejected"
    /\ UNCHANGED <<chartConfig, provider, variant, pc, dashboard, data,
                   validated, traces, layout, plotCalls, error, initPromise,
                   console, calls>>

\* the awaited promise rejects: the await throws inside the try block
PlotlyReject ==
    /\ pc = "await"
    /\ plotPromise = "pending"
    /\ plotPromise' = "rejected"
    /\ error' = "RenderError"
    /\ pc' = "catch"
    /\ UNCHANGED <<chartConfig, provider, variant, dashboard, data, validated, traces,
                   layout, plotCalls, initPromise, console, calls>>

InitCatchRethrow ==
    /\ pc = "catch"
    /\ initPromise' = "rejected"
    /\ pc' = "failed"
    /\ UNCHANGED <<chartConfig, provider, variant, dashboard, data, validated, traces,
                   layout, plotCalls, plotPromise, error, console, calls>>

InitCatchRetry ==
    /\ pc = "catch"
    /\ console' = Append(console,
                         Entry("error", "Dashboard initialization failed:",
                               <<error>>))
    /\ pc' = IF Len(plotCalls) = 1 THEN "newPlot" ELSE "failed"
    /\ initPromise' = IF Len(plotCalls) = 1 THEN initPromise ELSE "fulfilled"
    /\ UNCHANGED <<chartConfig, provider, variant, dashboard, data, validated, traces,
                   layout, plotCalls, plotPromise, error, calls>>

\* catch (error) { console.error('Dashboard initialization failed:', error); }
InitCatch ==
    /\ pc = "catch"
    /\ console' = Append(console,
                         Entry("error", "Dashboard initialization failed:",
                               <<error>>))
    /\ initPromise' = "fulfilled"
    /\ pc' = "failed"
    /\ UNCHANGED <<chartConfig, provider, variant, dashboard, data, validated, traces,
                   layout, plotCalls, plotPromise, error, calls>>

Next ==
    \/ DOMContentLoaded
    \/ InitGetData
    \/ InitValidate
    \/ RenderBuildTraces
    \/ RenderLayout
    \/ RenderNewPlot
    \/ PlotlyFulfil
    \/ PlotlyReject
    \/ InitCatch

Spec == Init /\ [][Next]_vars

\* Once started, init runs on: the synchronous statements of an async
\* function run to the await, and its continuation runs once the awaited
\* promise has settled.
RunSteps ==
    \/ InitGetData
    \/ InitValidate
    \/ RenderBuildTraces
    \/ RenderLayout
    \/ RenderNewPlot
    \/ InitCatch

\* The promise returned by Plotly.newPlot settles
Settles == PlotlyFulfil \/ PlotlyReject

\* Spec, for the runs in which a pending promise of Plotly.newPlot
\* eventually settles
SpecSettling ==
    Init /\ [][Next]_vars /\ WF_vars(RunSteps) /\ WF_vars(Settles)

----------------------------------------------------------------------------
(* ChartRenderer.render called directly, outside Dashboard.init: a caller  *)
(* constructs the renderer and passes it an entity.  After the external    *)
(* call, pc = "catch" stands for the exception propagating to that caller  *)
(* and pc = "await" for the promise returned to it.                        *)

RenderArguments == Entities \cup {getLosRiosData}

InitRender ==
    /\ chartConfig = ChartConfig
    /\ provider \in {[kind |-> "replaced", throws |-> FALSE, entity |-> e] :
                         e \in RenderArguments}
    /\ variant = "main"
    /\ pc = "buildTraces"
    /\ dashboard = [chartRenderer |-> ChartRenderer("chart-container")]
    /\ data = provider.entity
    /\ validated = "none"
    /\ traces = <<>>
    /\ layout = NoLayout
    /\ plotCalls = <<>>
    /\ plotPromise = "none"
    /\ error = ""
    /\ initPromise = "none"
    /\ console = <<>>
    /\ calls = <<"render">>

NextRender ==
    \/ RenderBuildTraces
    \/ RenderLayout
    \/ RenderNewPlot

SpecRender == InitRender /\ [][NextRender]_vars

----------------------------------------------------------------------------
(* Vocabulary of the properties *)

Range(f) == {f[i] : i \in DOMAIN f}

Called(op) == op \in Range(calls)

Fetched == data # NoData

SeriesKeys == {DataSeries.TOTAL, DataSeries.MALE, DataSeries.FEMALE}

AllArrays(d) ==
    IsArray(d.years) /\ IsArray(d.total) /\ IsArray(d.male) /\ IsArray(d.female)

SameLengths(d) ==
    Cardinality({Length(d.years), Length(d.total), Length(d.male),
                 Length(d.female)}) = 1

FailureLogged ==
    /\ Len(console) > 0
    /\ console[Len(console)].level = "error"
    /\ console[Len(console)].msg = "Dashboard initialization failed:"
    /\ console[Len(console)].args = <<error>>

ErrorEntries == {i \in DOMAIN console : console[i].level = "error"}

\* the orchestrator's state as section 4.3 of the specification names it
State ==
    IF pc = "rendered" THEN "rendered"
    ELSE IF pc = "failed" THEN "failed"
    ELSE "not rendered"

----------------------------------------------------------------------------
(* C1: when the entity's four arrays do not all have the same length,      *)
(* Dashboard.init never reaches the render path, Plotly.newPlot is never   *)
(* called, and once init has ended the failure has been logged with        *)
(* console.error.                                                          *)
C1_NoRenderOnMismatch ==
    (Fetched /\ AllArrays(data) /\ ~SameLengths(data)) =>
        /\ Len(plotCalls) = 0
        /\ ~Called("Plotly.newPlot")
        /\ ~Called("_buildTraces")
        /\ pc \in {"validate", "catch", "failed"}
        /\ (pc = "failed" =>
               /\ FailureLogged
               /\ error = "Invalid data structure"
               /\ Cardinality(ErrorEntries) = 1)

C1_Witness ==
    /\ pc = "failed"
    /\ data = MismatchScenario
    /\ Length(data.years) = 15
    /\ Length(data.male) = 14
    /\ validated = "false"
    /\ Len(plotCalls) = 0
    /\ FailureLogged

(* C2: validate() returns true exactly when years, total, male and female  *)
(* all have the same length, and false (without throwing) when any of them *)
(* differs.                                                                *)
C2_ValidateIffSameLengths ==
    (Called("validate") /\ AllArrays(data)) =>
        /\ validated \in {"true", "false"}
        /\ (validated = "true") <=> SameLengths(data)

C2_Witness ==
    /\ validated = "false"
    /\ AllArrays(data)
    /\ Length(data.years) = Length(data.total)
    /\ Length(data.years) = Length(data.male)
    /\ Length(data.years) # Length(data.female)

(* C3: on validation failure, on a synchronous throw of the draw call and  *)
(* on a rejection of the promise it returned, control is in the catch      *)
(* block or past it, the promise of init is never rejected, and once init  *)
(* has ended it is fulfilled and the failure was logged by console.error.  *)
C3_FailureCaughtLoggedSwallowed ==
    /\ initPromise # "rejected"
    /\ (validated = "false" \/ plotPromise = "rejected" \/ error = "RenderError")
           => pc \in {"catch", "failed"}
    /\ pc = "failed" =>
           /\ initPromise = "fulfilled"
           /\ FailureLogged
           /\ Cardinality(ErrorEntries) = 1
    /\ pc # "failed" => (ErrorEntries = {})

C3_Witness ==
    /\ pc = "failed"
    /\ plotPromise = "rejected"
    /\ initPromise = "fulfilled"
    /\ FailureLogged
    /\ error = "RenderError"

(* C4: in every run the validator is invoked before the trace and layout   *)
(* assembly, and the assembly before Plotly.newPlot; the assembler and the *)
(* external call are reached only after validate() returned true.          *)
C4_ValidateAssembleDraw ==
    /\ \A i \in DOMAIN calls :
          calls[i] \in {"_buildTraces", "LayoutBuilder.create", "Plotly.newPlot"}
              => /\ \E j \in 1..(i - 1) : calls[j] = "validate"
                 /\ validated = "true"
                 /\ validate(data) = Return(TRUE)
    /\ \A i \in DOMAIN calls :
          calls[i] = "Plotly.newPlot"
              => /\ \E j \in 1..(i - 1) : calls[j] = "_buildTraces"
                 /\ \E j \in 1..(i - 1) : calls[j] = "LayoutBuilder.create"
    /\ pc \in {"buildTraces", "layout", "newPlot", "await", "rendered"}
          => validated = "true"

C4_Witness ==
    /\ pc = "rendered"
    /\ calls = <<"init", "getLosRiosData", "validate", "_buildTraces",
                 "LayoutBuilder.create", "Plotly.newPlot">>

(* C5: for a valid entity (four arrays of one length N) the assembler      *)
(* yields exactly three traces, for total, male and female in that order,  *)
(* named "Ambos sexos", "Hombres" and "Mujeres", and one layout.           *)
C5_ThreeTracesOneLayout ==
    /\ Called("_buildTraces") =>
          /\ AllArrays(data) /\ SameLengths(data)
          /\ Len(traces) = 3
          /\ traces[1].name = "Ambos sexos" /\ traces[1].y = data.total
          /\ traces[2].name = "Hombres" /\ traces[2].y = data.male
          /\ traces[3].name = "Mujeres" /\ traces[3].y = data.female
    /\ Called("LayoutBuilder.create") => layout = LayoutBuilderCreate
    /\ \A i \in DOMAIN plotCalls :
          /\ Len(plotCalls[i].traces) = 3
          /\ plotCalls[i].traces = traces
          /\ plotCalls[i].layout = layout
          /\ layout # NoLayout

C5_Witness ==
    /\ pc = "await"
    /\ Length(data.years) = MaxLen
    /\ data.total # data.male
    /\ data.male # data.female
    /\ data.total # data.female
    /\ Len(traces) = 3
    /\ <<traces[1].name, traces[2].name, traces[3].name>>
           = <<"Ambos sexos", "Hombres", "Mujeres">>
    /\ Len(plotCalls) = 1

(* C6: the trace built for each series key k of total, male and female has *)
(* x equal to data.years and y equal to data[k], element for element, and  *)
(* its line colour and marker colour are both ChartConfig.colors[k].       *)
TraceIndex == [total |-> 1, male |-> 2, female |-> 3]

C6_TraceCoordinatesAndColours ==
    Called("_buildTraces") =>
        \A k \in SeriesKeys :
            LET t == traces[TraceIndex[k]] IN
              /\ t.x = data.years
              /\ t.y = data[k]
              /\ Length(t.x) = Length(data.years)
              /\ \A i \in 1..Length(t.y) : t.y.elems[i] = data[k].elems[i]
              /\ \A i \in 1..Length(t.x) : t.x.elems[i] = data.years.elems[i]
              /\ t.line.color = ChartConfig.colors[k]
              /\ t.marker.color = ChartConfig.colors[k]

C6_Witness ==
    /\ Called("_buildTraces")
    /\ Length(data.years) = MaxLen
    /\ data.total.elems[1] # data.total.elems[MaxLen]
    /\ data.male # data.total
    /\ data.female # data.male
    /\ traces[2].y = data.male
    /\ traces[2].x = data.years
    /\ traces[2].marker.color = "#d62728"

(* C7: the layout holds exactly one shape, a vertical line with x0 = x1 =  *)
(* 2020, and exactly one annotation, with x = 2020, for every input.       *)
C7_MarkerAt2020 ==
    Called("LayoutBuilder.create") =>
        /\ Len(layout.shapes) = 1
        /\ layout.shapes[1].type = "line"
        /\ layout.shapes[1].x0 = 2020
        /\ layout.shapes[1].x1 = 2020
        /\ layout.shapes[1].y0 # layout.shapes[1].y1
        /\ Len(layout.annotations) = 1
        /\ layout.annotations[1].x = 2020

C7_Witness ==
    /\ pc = "newPlot"
    /\ provider.kind = "replaced"
    /\ Length(data.years) = 1
    /\ layout.shapes[1].x0 = 2020
    /\ layout.annotations[1].x = 2020

(* C8: with the shipped DataService the entity has years 2010..2024,       *)
(* ascending and contiguous, and 15 entries in each of the four arrays;    *)
(* validate() returns true and init gets to the Plotly.newPlot call: it    *)
(* can fail only after that call was made.                                 *)
C8_ShippedDatasetValid ==
    (provider.kind = "shipped" /\ Fetched) =>
        /\ AllArrays(data)
        /\ Length(data.years) = 15
        /\ \A i \in 1..15 : data.years.elems[i] = 2009 + i
        /\ Length(data.total) = 15
        /\ Length(data.male) = 15
        /\ Length(data.female) = 15
        /\ validated \in {"none", "true"}
        /\ validated = "none" => pc = "validate"
        /\ pc \in {"catch", "failed", "await", "rendered"} => Len(plotCalls) = 1

C8_Witness ==
    /\ provider.kind = "shipped"
    /\ validated = "true"
    /\ pc = "await"
    /\ Len(plotCalls) = 1
    /\ plotCalls[1].traces[1].y = Arr(LosRiosTotal)

(* C9: when the four arrays are all empty, validate() returns true, the    *)
(* three traces have empty x and y arrays, and no error is raised before   *)
(* the Plotly.newPlot call.                                                *)
C9_EmptyDataset ==
    (Fetched /\ data = EmptyEntity) =>
        /\ validated \in {"none", "true"}
        /\ validated = "none" => pc = "validate"
        /\ Len(plotCalls) = 0 => (error = "" /\ pc \notin {"catch", "failed"})
        /\ Called("_buildTraces") =>
              /\ Len(traces) = 3
              /\ \A i \in 1..3 :
                    /\ traces[i].x = Arr(<<>>)
                    /\ traces[i].y = Arr(<<>>)
        /\ \A i \in DOMAIN plotCalls :
              \A j \in 1..3 :
                 /\ plotCalls[i].traces[j].x = Arr(<<>>)
                 /\ plotCalls[i].traces[j].y = Arr(<<>>)

C9_Witness ==
    /\ data = EmptyEntity
    /\ validated = "true"
    /\ pc = "await"
    /\ Len(plotCalls) = 1
    /\ Len(traces) = 3
    /\ traces[3].x = Arr(<<>>)
    /\ error = ""

(* C10: the orchestrator is not rendered, rendered or failed; init runs    *)
(* once, leaves not rendered only for rendered or failed, and from         *)
(* rendered or failed nothing changes any more; no run calls               *)
(* Plotly.newPlot a second time.                                           *)
C10_OneShotNoRetry ==
    [][ /\ State \in {"rendered", "failed"} => UNCHANGED vars
        /\ State' # State => (State = "not rendered"
                                /\ State' \in {"rendered", "failed"})
        /\ Len(plotCalls') <= 1
        /\ Cardinality({i \in DOMAIN calls' : calls'[i] = "init"}) <= 1
        /\ pc = "failed" => pc' = "failed"
        /\ pc = "rendered" => pc' = "rendered" ]_vars

C10_Witness ==
    /\ State = "failed"
    /\ Len(plotCalls) = 1
    /\ Called("Plotly.newPlot")
    /\ error = "RenderError"

(* C11: when validate() returned true, init makes exactly one call to      *)
(* Plotly.newPlot, with the container id 'chart-container', the three      *)
(* traces, the layout, and options with responsive = true and pan2d,       *)
(* lasso2d and select2d in modeBarButtonsToRemove.                         *)
C11_SingleExternalCall ==
    /\ Len(plotCalls) <= 1
    /\ (validated = "true" /\ pc \in {"await", "rendered", "catch", "failed"})
          => Len(plotCalls) = 1
    /\ Len(plotCalls) = 1 => validated = "true"
    /\ \A i \in DOMAIN plotCalls :
          /\ plotCalls[i].containerId = "chart-container"
          /\ plotCalls[i].traces = buildTraces(data)
          /\ Len(plotCalls[i].traces) = 3
          /\ plotCalls[i].layout = LayoutBuilderCreate
          /\ plotCalls[i].config.responsive = TRUE
          /\ Range(plotCalls[i].config.modeBarButtonsToRemove)
                = {"pan2d", "lasso2d", "select2d"}

C11_Witness ==
    /\ pc = "rendered"
    /\ validated = "true"
    /\ Len(plotCalls) = 1
    /\ plotCalls[1].containerId = "chart-container"
    /\ plotCalls[1].config.responsive = TRUE
    /\ Length(plotCalls[1].traces[1].x) = MaxLen

(* C12 is not stated: see C13 for the state the builders read.             *)

(* C13: no step of the program changes the ChartConfig object, the data    *)
(* provider, or the entity once it has been fetched; the arrays handed to  *)
(* the traces stay those of the entity.  (Events is frozen.)               *)
C13_DatasetAndConfigUnchanged ==
    [][ /\ chartConfig = ChartConfig
        /\ chartConfig' = chartConfig
        /\ provider' = provider
        /\ Fetched => data' = data
        /\ (Fetched' /\ provider.kind = "shipped") => data' = getLosRiosData
        /\ (Fetched' /\ provider.kind = "replaced") => data' = provider.entity
        /\ Called("_buildTraces")' =>
              \A i \in 1..3 : traces'[i].x = data'.years ]_vars

C13_Witness ==
    /\ pc = "rendered"
    /\ chartConfig = ChartConfig
    /\ provider.kind = "replaced"
    /\ data = provider.entity
    /\ Length(data.years) = MaxLen
    /\ traces[1].x = data.years

(* C14: the layout returned by LayoutBuilder.create has, beside its title, *)
(* axis, legend, shapes and annotations fields, a responsive sizing flag:  *)
(* a field that turns automatic resizing on (autosize or responsive).      *)
ResponsiveFlags == {"autosize", "responsive"}

C14_LayoutHasResponsiveFlag ==
    Called("LayoutBuilder.create") =>
        /\ {"title", "xaxis", "yaxis", "legend", "shapes", "annotations"}
              \subseteq DOMAIN layout
        /\ \E f \in ResponsiveFlags \cap DOMAIN layout : layout[f] = TRUE

(* C15: render validates nothing.  Called directly with any entity, also   *)
(* one whose arrays differ in length, it never invokes validate(), builds  *)
(* the three traces from the arrays as they are and calls Plotly.newPlot   *)
(* exactly once.                                                           *)
C15_RenderDoesNotValidate ==
    /\ ~Called("validate")
    /\ validated = "none"
    /\ pc \in {"buildTraces", "layout", "newPlot", "await", "catch"}
    /\ pc \in {"await", "catch"} =>
          /\ Len(plotCalls) = 1
          /\ Len(plotCalls[1].traces) = 3
          /\ plotCalls[1].traces = buildTraces(data)
          /\ \A k \in SeriesKeys :
                plotCalls[1].traces[TraceIndex[k]].y = data[k]
    /\ pc = "catch" => error = "RenderError"

C15_Witness ==
    /\ pc = "await"
    /\ data = MismatchScenario
    /\ ~SameLengths(data)
    /\ Len(traces) = 3
    /\ Length(traces[2].x) = 15
    /\ Length(traces[2].y) = 14
    /\ Len(plotCalls) = 1

(* C16: an exception thrown in init before the draw call, by               *)
(* DataService.getLosRiosData or by validate() reading the length of a     *)
(* missing sequence, goes to the same catch block: Plotly.newPlot is not   *)
(* called, the promise of init is not rejected, and once init has ended    *)
(* it is fulfilled and the failure was logged by console.error.            *)
C16_EarlyExceptionCaught ==
    /\ (provider.throws /\ Called("getLosRiosData")) => error = "ProviderError"
    /\ (Called("validate") /\ ~AllArrays(data) /\ validated # "false")
          => (validated = "threw" /\ error = "TypeError")
    /\ error \in {"ProviderError", "TypeError"} =>
          /\ pc \in {"catch", "failed"}
          /\ Len(plotCalls) = 0
          /\ ~Called("_buildTraces")
          /\ initPromise # "rejected"
          /\ pc = "failed" =>
                /\ initPromise = "fulfilled"
                /\ FailureLogged
                /\ Cardinality(ErrorEntries) = 1

C16_Witness ==
    /\ pc = "failed"
    /\ validated = "threw"
    /\ data.male = Undefined
    /\ error = "TypeError"
    /\ initPromise = "fulfilled"
    /\ FailureLogged
    /\ Len(plotCalls) = 0

C16_WitnessProvider ==
    /\ pc = "failed"
    /\ provider.throws
    /\ error = "ProviderError"
    /\ initPromise = "fulfilled"
    /\ FailureLogged

(* C17: when the promise of Plotly.newPlot eventually settles, every       *)
(* started init eventually ends in rendered or failed.  There is no        *)
(* timeout and no cancellation: while init waits at the await its promise  *)
(* is pending and the state is not rendered, and only the settlement of    *)
(* the awaited promise takes it out of the await.                          *)
Started == pc # "loading"

C17_TerminatesWhenSettled ==
    /\ Started ~> (State \in {"rendered", "failed"})
    /\ [](pc = "await" =>
             /\ initPromise = "pending"
             /\ plotPromise = "pending"
             /\ State = "not rendered")
    /\ [][(pc = "await" /\ pc' # "await") =>
             plotPromise' \in {"fulfilled", "rejected"}]_vars

C17_Witness ==
    /\ State = "rendered"
    /\ plotPromise = "fulfilled"
    /\ initPromise = "fulfilled"
    /\ Len(plotCalls) = 1

(* C18: in the shipped dataset the total of every year is the sum of the   *)
(* male and female values of that year, exactly, in tenths of a thousand.  *)
C18_TotalIsMalePlusFemale ==
    (provider.kind = "shipped" /\ Fetched) =>
        /\ Length(data.total) = 15
        /\ \A i \in 1..15 :
              data.total.elems[i] = data.male.elems[i] + data.female.elems[i]

C18_Witness ==
    /\ provider.kind = "shipped"
    /\ Fetched
    /\ pc = "rendered"
    /\ data.total.elems[11] = 1655
    /\ data.male.elems[11] = 942
    /\ data.female.elems[11] = 713

====
